---- MODULE Spec2Model ----
(***************************************************************************)
(* A model of server.py, the Open-Meteo tool server: the HTTP fetcher      *)
(* make_openmeteo_request and the two tools get_forecast and               *)
(* get_current_weather, as the host runs them: each invocation is a        *)
(* coroutine that suspends at the network call.                            *)
(*                                                                         *)
(* Texts are strings; a JSON document is a tagged record:                  *)
(*   [t |-> "null"], [t |-> "bool", b |-> ..], [t |-> "int", n |-> ..],    *)
(*   [t |-> "str", s |-> ..], [t |-> "arr", a |-> <<values>>],             *)
(*   [t |-> "obj", o |-> <<[k |-> key, v |-> value], ...>>]                *)
(* (an object keeps its members in insertion order, as a Python dict).     *)
(* The number domain is the integers.                                      *)
(***************************************************************************)
EXTENDS Integers, Sequences, FiniteSets, TLC

VARIABLES pc, tool, args, url, client, requests, net, ret, data, outcome

vars == <<pc, tool, args, url, client, requests, net, ret, data, outcome>>

(***************************************************************************)
(* Bounds of the model.                                                    *)
(***************************************************************************)
\* the number of tool invocations the host has in flight at once
MaxInvocations == 2
\* the longest `daily.time` sequence of a forecast document
MaxDays == 2

(***************************************************************************)
(* JSON documents and Python's view of them.                               *)
(***************************************************************************)
JNull == [t |-> "null"]
JBool(b) == [t |-> "bool", b |-> b]
JInt(n) == [t |-> "int", n |-> n]
JStr(s) == [t |-> "str", s |-> s]
JArr(a) == [t |-> "arr", a |-> a]
JObj(o) == [t |-> "obj", o |-> o]
Member(k, v) == [k |-> k, v |-> v]

\* Python's None, the fetcher's absence result
None == JNull

\* bool(v): None, False, 0, "", [] and {} are falsy
PyTruthy(v) ==
    CASE v.t = "null" -> FALSE
      [] v.t = "bool" -> v.b
      [] v.t = "int" -> v.n # 0
      [] v.t = "str" -> Len(v.s) > 0
      [] v.t = "arr" -> Len(v.a) > 0
      [] v.t = "obj" -> Len(v.o) > 0

\* the character of s at position p, "" past its end
Ch(s, p) == IF p >= 1 /\ p <= Len(s) THEN SubSeq(s, p, p) ELSE ""

\* s[p..q], "" when it runs past the end of s
Sub(s, p, q) == IF p >= 1 /\ q <= Len(s) THEN SubSeq(s, p, q) ELSE ""

RECURSIVE Repeat(_, _)
Repeat(s, n) == IF n <= 0 THEN "" ELSE s \o Repeat(s, n - 1)

(***************************************************************************)
(* json.dumps(data, indent=2): ensure_ascii escaping of strings, one       *)
(* member per line, "," between items and ": " after a key, empty          *)
(* containers as [] and {}.                                                *)
(***************************************************************************)
EscapeChar(c) ==
    CASE c = "\"" -> "\\\""
      [] c = "\\" -> "\\\\"
      [] c = "\n" -> "\\n"
      [] c = "\t" -> "\\t"
      [] c = "°" -> "\\u00b0"
      [] OTHER -> c

RECURSIVE EscapeFrom(_, _)
EscapeFrom(s, p) ==
    IF p > Len(s) THEN "" ELSE EscapeChar(Ch(s, p)) \o EscapeFrom(s, p + 1)

EncodeString(s) == "\"" \o EscapeFrom(s, 1) \o "\""

RECURSIVE Encode(_, _, _), EncodeItems(_, _, _, _), EncodeMembers(_, _, _, _)
Encode(v, indent, level) ==
    CASE v.t = "null" -> "null"
      [] v.t = "bool" -> IF v.b THEN "true" ELSE "false"
      [] v.t = "int" -> ToString(v.n)
      [] v.t = "str" -> EncodeString(v.s)
      [] v.t = "arr" ->
           IF Len(v.a) = 0 THEN "[]"
           ELSE "[" \o "\n" \o Repeat(" ", indent * (level + 1))
                \o EncodeItems(v.a, 1, indent, level + 1)
                \o "\n" \o Repeat(" ", indent * level) \o "]"
      [] v.t = "obj" ->
           IF Len(v.o) = 0 THEN "{}"
           ELSE "{" \o "\n" \o Repeat(" ", indent * (level + 1))
                \o EncodeMembers(v.o, 1, indent, level + 1)
                \o "\n" \o Repeat(" ", indent * level) \o "}"
EncodeItems(a, i, indent, level) ==
    Encode(a[i], indent, level)
    \o (IF i = Len(a) THEN ""
        ELSE "," \o "\n" \o Repeat(" ", indent * level)
             \o EncodeItems(a, i + 1, indent, level))
EncodeMembers(o, i, indent, level) ==
    EncodeString(o[i].k) \o ": " \o Encode(o[i].v, indent, level)
    \o (IF i = Len(o) THEN ""
        ELSE "," \o "\n" \o Repeat(" ", indent * level)
             \o EncodeMembers(o, i + 1, indent, level))

JsonDumps(v, indent) == Encode(v, indent, 0)

(***************************************************************************)
(* response.json(): json.loads of the body. A parse result is              *)
(* [ok |-> TRUE, v |-> value, p |-> position after it] or [ok |-> FALSE].  *)
(***************************************************************************)
Fail == [ok |-> FALSE]
Ok(v, p) == [ok |-> TRUE, v |-> v, p |-> p]

IsWs(c) == c \in {" ", "\t", "\n", "\r"}
IsDigit(c) == c \in {"0", "1", "2", "3", "4", "5", "6", "7", "8", "9"}
DigitVal(c) ==
    CASE c = "0" -> 0 [] c = "1" -> 1 [] c = "2" -> 2 [] c = "3" -> 3
      [] c = "4" -> 4 [] c = "5" -> 5 [] c = "6" -> 6 [] c = "7" -> 7
      [] c = "8" -> 8 [] c = "9" -> 9

RECURSIVE SkipWs(_, _)
SkipWs(s, p) == IF IsWs(Ch(s, p)) THEN SkipWs(s, p + 1) ELSE p

\* the digits from p on: [n |-> value of acc followed by them, p |-> after]
RECURSIVE ScanDigits(_, _, _)
ScanDigits(s, p, acc) ==
    IF IsDigit(Ch(s, p)) THEN ScanDigits(s, p + 1, 10 * acc + DigitVal(Ch(s, p)))
    ELSE [n |-> acc, p |-> p]

\* -?(0|[1-9][0-9]*)
ParseNumber(s, p) ==
    LET neg == Ch(s, p) = "-"
        q == IF neg THEN p + 1 ELSE p
        d == IF Ch(s, q) = "0" THEN [n |-> 0, p |-> q + 1]
             ELSE ScanDigits(s, q, 0)
    IN  IF ~IsDigit(Ch(s, q)) THEN Fail
        ELSE Ok(JInt(IF neg THEN 0 - d.n ELSE d.n), d.p)

\* the character an escape sequence at p (after the backslash) stands for
Unescape(s, p) ==
    LET c == Ch(s, p)
    IN  CASE c = "\"" -> Ok("\"", p + 1)
          [] c = "\\" -> Ok("\\", p + 1)
          [] c = "/" -> Ok("/", p + 1)
          [] c = "n" -> Ok("\n", p + 1)
          [] c = "t" -> Ok("\t", p + 1)
          [] c = "r" -> Ok("\r", p + 1)
          [] c = "u" -> IF Sub(s, p + 1, p + 4) \in {"00b0", "00B0"}
                        THEN Ok("°", p + 5) ELSE Fail
          [] OTHER -> Fail

\* the string whose opening quote is just before p (strict: no raw control
\* character inside)
RECURSIVE ScanString(_, _, _)
ScanString(s, p, acc) ==
    LET c == Ch(s, p)
    IN  CASE c = "" -> Fail
          [] c = "\"" -> Ok(acc, p + 1)
          [] c \in {"\n", "\t", "\r"} -> Fail
          [] c = "\\" ->
               LET e == Unescape(s, p + 1)
               IN  IF e.ok THEN ScanString(s, e.p, acc \o e.v) ELSE Fail
          [] OTHER -> ScanString(s, p + 1, acc \o c)

\* dict[k] = v: a repeated key keeps its place and takes the new value
RECURSIVE ObjPut(_, _, _)
ObjPut(o, k, v) ==
    IF o = <<>> THEN <<Member(k, v)>>
    ELSE IF Head(o).k = k THEN <<Member(k, v)>> \o Tail(o)
    ELSE <<Head(o)>> \o ObjPut(Tail(o), k, v)

RECURSIVE ParseValue(_, _), ParseItems(_, _, _), ParseMembers(_, _, _)
ParseValue(s, p) ==
    LET c == Ch(s, p)
    IN  CASE c = "\"" ->
               LET r == ScanString(s, p + 1, "")
               IN  IF r.ok THEN Ok(JStr(r.v), r.p) ELSE Fail
          [] c = "{" ->
               LET q == SkipWs(s, p + 1)
               IN  IF Ch(s, q) = "}" THEN Ok(JObj(<<>>), q + 1)
                   ELSE ParseMembers(s, q, <<>>)
          [] c = "[" ->
               LET q == SkipWs(s, p + 1)
               IN  IF Ch(s, q) = "]" THEN Ok(JArr(<<>>), q + 1)
                   ELSE ParseItems(s, q, <<>>)
          [] c = "n" -> IF Sub(s, p, p + 3) = "null"
                        THEN Ok(JNull, p + 4) ELSE Fail
          [] c = "t" -> IF Sub(s, p, p + 3) = "true"
                        THEN Ok(JBool(TRUE), p + 4) ELSE Fail
          [] c = "f" -> IF Sub(s, p, p + 4) = "false"
                        THEN Ok(JBool(FALSE), p + 5) ELSE Fail
          [] OTHER -> ParseNumber(s, p)
\* the items of an array from p on, acc being those before
ParseItems(s, p, acc) ==
    LET r == ParseValue(s, p)
        q == SkipWs(s, r.p)
    IN  IF ~r.ok THEN Fail
        ELSE CASE Ch(s, q) = "]" -> Ok(JArr(Append(acc, r.v)), q + 1)
               [] Ch(s, q) = "," ->
                    ParseItems(s, SkipWs(s, q + 1), Append(acc, r.v))
               [] OTHER -> Fail
\* the members of an object from p on, acc being those before
ParseMembers(s, p, acc) ==
    IF Ch(s, p) # "\"" THEN Fail
    ELSE
      LET k == ScanString(s, p + 1, "")
          c == SkipWs(s, k.p)
          r == ParseValue(s, SkipWs(s, c + 1))
          q == SkipWs(s, r.p)
      IN  IF ~k.ok THEN Fail
          ELSE IF Ch(s, c) # ":" THEN Fail
          ELSE IF ~r.ok THEN Fail
          ELSE CASE Ch(s, q) = "}" -> Ok(JObj(ObjPut(acc, k.v, r.v)), q + 1)
                 [] Ch(s, q) = "," ->
                      ParseMembers(s, SkipWs(s, q + 1), ObjPut(acc, k.v, r.v))
                 [] OTHER -> Fail

\* json.loads(body): one value, whitespace around it, nothing after
JsonLoads(s) ==
    LET r == ParseValue(s, SkipWs(s, 1))
    IN  IF r.ok /\ SkipWs(s, r.p) = Len(s) + 1 THEN Ok(r.v, r.p) ELSE Fail

(***************************************************************************)
(* Python's subscript, len() and str() on a parsed document. A lookup      *)
(* yields [ok |-> TRUE, v |-> value] or [ok |-> FALSE, exc |-> exception]. *)
(***************************************************************************)
Found(v) == [ok |-> TRUE, v |-> v]
Throws(e) == [ok |-> FALSE, exc |-> e]

RECURSIVE ObjGet(_, _)
ObjGet(o, k) ==
    IF o = <<>> THEN Throws("KeyError")
    ELSE IF Head(o).k = k THEN Found(Head(o).v)
    ELSE ObjGet(Tail(o), k)

\* v[key] for a str key
GetItemKey(v, key) ==
    IF v.t = "obj" THEN ObjGet(v.o, key) ELSE Throws("TypeError")

\* v[i] for an int i >= 0
GetItemIndex(v, i) ==
    CASE v.t = "arr" ->
           IF i < Len(v.a) THEN Found(v.a[i + 1]) ELSE Throws("IndexError")
      [] v.t = "str" ->
           IF i < Len(v.s) THEN Found(JStr(Ch(v.s, i + 1)))
           ELSE Throws("IndexError")
      [] v.t = "obj" -> Throws("KeyError")
      [] OTHER -> Throws("TypeError")

\* len(v)
PyLen(v) ==
    CASE v.t = "arr" -> Found(Len(v.a))
      [] v.t = "str" -> Found(Len(v.s))
      [] v.t = "obj" -> Found(Len(v.o))
      [] OTHER -> Throws("TypeError")

RECURSIVE Contains(_, _, _)
Contains(s, c, p) ==
    IF p > Len(s) THEN FALSE ELSE Ch(s, p) = c \/ Contains(s, c, p + 1)

RECURSIVE ReprFrom(_, _, _)
ReprFrom(s, p, quote) ==
    IF p > Len(s) THEN ""
    ELSE LET c == Ch(s, p)
         IN  (CASE c = quote -> "\\" \o c
                [] c = "\\" -> "\\\\"
                [] c = "\n" -> "\\n"
                [] c = "\t" -> "\\t"
                [] OTHER -> c) \o ReprFrom(s, p + 1, quote)

\* repr(s) of a str: single quotes, unless s holds one and no double quote
ReprString(s) ==
    LET quote == IF Contains(s, "'", 1) /\ ~Contains(s, "\"", 1)
                 THEN "\"" ELSE "'"
    IN  quote \o ReprFrom(s, 1, quote) \o quote

RECURSIVE PyRepr(_), ReprItems(_, _), ReprMembers(_, _)
PyRepr(v) ==
    CASE v.t = "null" -> "None"
      [] v.t = "bool" -> IF v.b THEN "True" ELSE "False"
      [] v.t = "int" -> ToString(v.n)
      [] v.t = "str" -> ReprString(v.s)
      [] v.t = "arr" -> "[" \o ReprItems(v.a, 1) \o "]"
      [] v.t = "obj" -> "{" \o ReprMembers(v.o, 1) \o "}"
ReprItems(a, i) ==
    IF i > Len(a) THEN ""
    ELSE PyRepr(a[i]) \o (IF i = Len(a) THEN "" ELSE ", " \o ReprItems(a, i + 1))
ReprMembers(o, i) ==
    IF i > Len(o) THEN ""
    ELSE ReprString(o[i].k) \o ": " \o PyRepr(o[i].v)
         \o (IF i = Len(o) THEN "" ELSE ", " \o ReprMembers(o, i + 1))

\* str(v), what an f-string field {v} renders
PyStr(v) == IF v.t = "str" THEN v.s ELSE PyRepr(v)

\* sep.join(parts)
RECURSIVE StrJoin(_, _)
StrJoin(sep, parts) ==
    IF parts = <<>> THEN ""
    ELSE IF Len(parts) = 1 THEN parts[1]
    ELSE parts[1] \o sep \o StrJoin(sep, Tail(parts))

(***************************************************************************)
(* What a coroutine ends with: a returned value or text, or an exception.  *)
(***************************************************************************)
ReturnValue(v) == [kind |-> "return", v |-> v]
ReturnText(s) == [kind |-> "return", text |-> s]
Raise(e) == [kind |-> "raise", exc |-> e]

(***************************************************************************)
(* The constants and the URLs. A coordinate is a float with at most two    *)
(* decimals, held as its number of hundredths.                             *)
(***************************************************************************)
OPENMETEO_API_BASE == "https://api.open-meteo.com/v1"

\* str(x) of the float x = h / 100
FloatStr(h) ==
    LET a == IF h < 0 THEN 0 - h ELSE h
        frac == a % 100
    IN  (IF h < 0 THEN "-" ELSE "") \o ToString(a \div 100) \o "."
        \o (IF frac % 10 = 0 THEN ToString(frac \div 10)
            ELSE IF frac < 10 THEN "0" \o ToString(frac)
            ELSE ToString(frac))

ForecastUrl(latitude, longitude) ==
    OPENMETEO_API_BASE \o "/forecast?latitude=" \o FloatStr(latitude)
    \o "&longitude=" \o FloatStr(longitude)
    \o "&hourly=temperature_2m,precipitation,weathercode"
    \o "&daily=temperature_2m_max,temperature_2m_min,precipitation_sum,weathercode"
    \o "&timezone=auto"

\* the URL with one variable (rain) left out of the list
CurrentWeatherUrlShort(latitude, longitude) ==
    OPENMETEO_API_BASE \o "/forecast?latitude=" \o FloatStr(latitude)
    \o "&longitude=" \o FloatStr(longitude)
    \o "&current=temperature_2m,is_day,showers,cloud_cover,wind_speed_10m"
    \o ",wind_direction_10m"
    \o ",pressure_msl,snowfall,precipitation,relative_humidity_2m"
    \o ",apparent_temperature,weather_code,surface_pressure,wind_gusts_10m"

CurrentWeatherUrl(latitude, longitude) ==
    OPENMETEO_API_BASE \o "/forecast?latitude=" \o FloatStr(latitude)
    \o "&longitude=" \o FloatStr(longitude)
    \o "&current=temperature_2m,is_day,showers,cloud_cover,wind_speed_10m"
    \o ",wind_direction_10m"
    \o ",pressure_msl,snowfall,precipitation,relative_humidity_2m"
    \o ",apparent_temperature,rain,weather_code,surface_pressure,wind_gusts_10m"

(***************************************************************************)
(* make_openmeteo_request: the try block on what the network delivers, and *)
(* the except clause.                                                      *)
(***************************************************************************)
\* response.raise_for_status(): an HTTP error status (4xx or 5xx) raises
IsErrorStatus(status) == status >= 400

\* client.get, raise_for_status and response.json, in that order
TryBlock(n) ==
    IF n.kind = "error" THEN Raise(n.exc)
    ELSE IF IsErrorStatus(n.status) THEN Raise("HTTPStatusError")
    ELSE LET r == JsonLoads(n.body)
         IN  IF r.ok THEN ReturnValue(r.v) ELSE Raise("JSONDecodeError")

\* a clause that catches the transport's errors only (httpx.HTTPError)
CatchesHttpOnly(exc) == exc \in {"ConnectError", "ReadTimeout", "HTTPStatusError"}

\* `except Exception`: every exception the try block raises is one
Catches(exc) == TRUE

\* what make_openmeteo_request hands its caller
MakeOpenmeteoRequest(n) ==
    LET r == TryBlock(n)
    IN  IF r.kind = "raise" /\ Catches(r.exc) THEN ReturnValue(None) ELSE r

\* a fetcher that tries once more after a failed attempt
RetryOnce(r, sent) ==
    IF r = ReturnValue(None) /\ sent < 2 THEN "sending" ELSE "exiting"

\* where the coroutine goes after its attempt: out of the `async with`
\* (there is no loop around the request)
AfterAttempt(r, sent) == "exiting"

\* a client closed by hand after the request, on the way out of success only
ClosedOnSuccessOnly(r) == IF r = ReturnValue(None) THEN "open" ELSE "closed"

\* the client on leaving the `async with` block, whatever the block ended with
ClientAfterExit(r) == "closed"

(***************************************************************************)
(* get_forecast and get_current_weather, from the fetcher's result on.     *)
(***************************************************************************)
\* the other tool's message, pasted
PastedMessage == "Unable to fetch current weather data for this location."

FORECAST_UNAVAILABLE == "Unable to fetch forecast data for this location."
CURRENT_UNAVAILABLE == "Unable to fetch current weather data for this location."
SEPARATOR == "\n---\n"

\* `if data is None`
IsNone(d) == d = None

\* `if not data`
NoData(d) == ~PyTruthy(d)

\* daily[key][i]
DailyAt(daily, key, i) ==
    LET a == GetItemKey(daily, key)
    IN  IF a.ok THEN GetItemIndex(a.v, i) ELSE a

\* the f-string of day i: its fields are evaluated in order
FormatDay(daily, i) ==
    LET time == DailyAt(daily, "time", i)
        tmax == DailyAt(daily, "temperature_2m_max", i)
        tmin == DailyAt(daily, "temperature_2m_min", i)
        prec == DailyAt(daily, "precipitation_sum", i)
        code == DailyAt(daily, "weathercode", i)
    IN  IF ~time.ok THEN Raise(time.exc)
        ELSE IF ~tmax.ok THEN Raise(tmax.exc)
        ELSE IF ~tmin.ok THEN Raise(tmin.exc)
        ELSE IF ~prec.ok THEN Raise(prec.exc)
        ELSE IF ~code.ok THEN Raise(code.exc)
        ELSE ReturnText("\nDate: " \o PyStr(time.v)
                        \o "\nMax Temperature: " \o PyStr(tmax.v) \o "°C"
                        \o "\nMin Temperature: " \o PyStr(tmin.v) \o "°C"
                        \o "\nPrecipitation: " \o PyStr(prec.v) \o " mm"
                        \o "\nWeather Code: " \o PyStr(code.v) \o "\n")

\* forecasts joined with the bare rule
JoinWithRule(forecasts) == StrJoin("---", forecasts)

\* the separator the forecasts are joined with
JoinForecasts(forecasts) == StrJoin(SEPARATOR, forecasts)

\* the loop over range(n) from i on, forecasts being those appended so far
RECURSIVE FormatDays(_, _, _, _)
FormatDays(daily, i, n, forecasts) ==
    IF i >= n THEN ReturnText(JoinForecasts(forecasts))
    ELSE LET f == FormatDay(daily, i)
         IN  IF f.kind = "raise" THEN f
             ELSE FormatDays(daily, i + 1, n, Append(forecasts, f.text))

\* get_forecast after `data = await make_openmeteo_request(url)`
GetForecastBody(d) ==
    IF NoData(d) THEN ReturnText(FORECAST_UNAVAILABLE)
    ELSE
      LET daily == GetItemKey(d, "daily")
          time == GetItemKey(daily.v, "time")
          n == PyLen(time.v)
      IN  IF ~daily.ok THEN Raise(daily.exc)
          ELSE IF ~time.ok THEN Raise(time.exc)
          ELSE IF ~n.ok THEN Raise(n.exc)
          ELSE FormatDays(daily.v, 0, n.v, <<>>)

\* a curated view: the `current` member alone
CurrentMemberOnly(d) ==
    IF NoData(d) THEN ReturnText(CURRENT_UNAVAILABLE)
    ELSE LET c == GetItemKey(d, "current")
         IN  IF c.ok THEN ReturnText(JsonDumps(c.v, 2)) ELSE Raise(c.exc)

\* get_current_weather after `data = await make_openmeteo_request(url)`
GetCurrentWeatherBody(d) ==
    IF NoData(d) THEN ReturnText(CURRENT_UNAVAILABLE)
    ELSE ReturnText(JsonDumps(d, 2))

(***************************************************************************)
(* The inputs: the coordinates the host passes and what the upstream       *)
(* answers.                                                                *)
(***************************************************************************)
Invocations == 1..MaxInvocations

\* (latitude, longitude) pairs, in hundredths of a degree
Coordinates == {<<5252, 1341>>, <<-3390, 15120>>}

\* day i of a forecast document
DayTime(i) == JStr("2024-01-0" \o ToString(i))
DayMax(i) == JInt(10 + i)
DayMin(i) == JInt(2 - 3 * i)
DayPrecipitation(i) == IF i = 1 THEN JNull ELSE JInt(i)
DayCode(i) == JInt(60 + i)

\* a forecast document of n days whose temperature_2m_max holds m values
ForecastDoc(n, m) ==
    JObj(<<Member("timezone", JStr("GMT")),
           Member("daily", JObj(<<
               Member("time", JArr([i \in 1..n |-> DayTime(i)])),
               Member("temperature_2m_max", JArr([i \in 1..m |-> DayMax(i)])),
               Member("temperature_2m_min", JArr([i \in 1..n |-> DayMin(i)])),
               Member("precipitation_sum",
                      JArr([i \in 1..n |-> DayPrecipitation(i)])),
               Member("weathercode", JArr([i \in 1..n |-> DayCode(i)]))>>))>>)

ForecastDocs == {ForecastDoc(n, m) : n \in 0..MaxDays, m \in 0..MaxDays}

\* current-weather documents
CurrentDoc ==
    JObj(<<Member("latitude", JInt(52)),
           Member("current_units", JObj(<<Member("temperature_2m", JStr("°C"))>>)),
           Member("current", JObj(<<Member("time", JStr("2024-01-01T12:00")),
                                    Member("temperature_2m", JInt(-3)),
                                    Member("is_day", JInt(1))>>))>>)
NestedDoc ==
    JObj(<<Member("note", JStr("a\"b\\c\nd\te")),
           Member("list", JArr(<<JArr(<<>>), JObj(<<>>), JNull, JBool(TRUE),
                                 JArr(<<JInt(0), JArr(<<JBool(FALSE)>>)>>)>>))>>)

\* documents of other shapes
ErrorDoc == JObj(<<Member("error", JBool(TRUE)), Member("reason", JStr("bad"))>>)
OddDocs ==
    { JObj(<<>>), JArr(<<>>), JInt(0), JStr(""), JBool(FALSE), JNull,
      JArr(<<JInt(1)>>), JInt(7), JStr("daily"), JBool(TRUE),
      ErrorDoc,
      JObj(<<Member("daily", JNull)>>),
      JObj(<<Member("daily", JObj(<<>>))>>),
      JObj(<<Member("daily", JArr(<<JStr("time")>>))>>),
      JObj(<<Member("daily", JObj(<<Member("time", JInt(3))>>))>>),
      JObj(<<Member("daily", JObj(<<Member("time", JStr("ab"))>>))>>),
      JObj(<<Member("daily", JObj(<<Member("time", JObj(<<Member("0", JNull)>>))>>))>>),
      JObj(<<Member("daily", JObj(<<Member("time", JArr(<<>>))>>))>>) }

Documents == ForecastDocs \cup {CurrentDoc, NestedDoc} \cup OddDocs

\* the body the upstream sends for a document
UpstreamBody(doc) == JsonDumps(doc, 0)

\* bodies that are no JSON text
MalformedBodies == {"", "<html>Bad Gateway</html>", "{\"daily\": {\"time\": [", "{} {}"}

Response(status, body) == [kind |-> "response", status |-> status, body |-> body]
NetError(exc) == [kind |-> "error", exc |-> exc]

\* a connection failure, and no response within the 30 s timeout
NetErrors == {NetError("ConnectError"), NetError("ReadTimeout")}

\* everything the upstream can answer a request with
Answers ==
    {Response(200, UpstreamBody(d)) : d \in Documents}
    \cup {Response(200, b) : b \in MalformedBodies}
    \cup {Response(st, UpstreamBody(d)) : st \in {404, 500}, d \in {ErrorDoc, CurrentDoc}}
    \cup NetErrors

\* the answers drawn on when several invocations are in flight
FewAnswers ==
    { Response(200, UpstreamBody(ForecastDoc(1, 1))),
      Response(200, UpstreamBody(ErrorDoc)),
      Response(500, UpstreamBody(ErrorDoc)),
      NetError("ConnectError") }

(***************************************************************************)
(* The state: one coroutine per invocation.                                *)
(*   pc        idle, sending, awaiting, exiting, done                      *)
(*   tool      the tool invoked, args its (latitude, longitude)            *)
(*   url       the tool's local `url`                                      *)
(*   client    the invocation's httpx.AsyncClient: none, open, closed      *)
(*   requests  the GET requests the invocation has sent                    *)
(*   net       what the network delivered to the invocation                *)
(*   ret       what make_openmeteo_request ends with, held in its frame    *)
(*             while the client is being closed                            *)
(*   data      the tool's local `data`                                     *)
(*   outcome   what the tool ended with                                    *)
(***************************************************************************)
Unset == [kind |-> "none"]
Unbound == [t |-> "unbound"]

\* a module-level variable instead: every invocation sees the value
StoreGlobal(f, i, v) == [j \in DOMAIN f |-> v]

\* a local of invocation i takes the value v
StoreLocal(f, i, v) == [f EXCEPT ![i] = v]

Init ==
    /\ pc = [i \in Invocations |-> "idle"]
    /\ tool = [i \in Invocations |-> "none"]
    /\ args = [i \in Invocations |-> <<0, 0>>]
    /\ url = [i \in Invocations |-> ""]
    /\ client = [i \in Invocations |-> "none"]
    /\ requests = [i \in Invocations |-> 0]
    /\ net = [i \in Invocations |-> Unset]
    /\ ret = [i \in Invocations |-> Unset]
    /\ data = [i \in Invocations |-> Unbound]
    /\ outcome = [i \in Invocations |-> Unset]

\* the host invokes tool t: the URL is built and make_openmeteo_request
\* enters its `async with httpx.AsyncClient()`
Call(i, t, u, c) ==
    /\ pc[i] = "idle"
    /\ tool' = [tool EXCEPT ![i] = t]
    /\ args' = [args EXCEPT ![i] = c]
    /\ url' = StoreLocal(url, i, u)
    /\ client' = [client EXCEPT ![i] = "open"]
    /\ pc' = [pc EXCEPT ![i] = "sending"]
    /\ UNCHANGED <<requests, net, ret, data, outcome>>

CallForecast(i, c) == Call(i, "get_forecast", ForecastUrl(c[1], c[2]), c)

CallCurrentWeather(i, c) ==
    Call(i, "get_current_weather", CurrentWeatherUrl(c[1], c[2]), c)

\* client.get(url, headers=headers, timeout=30.0) is sent; the coroutine
\* suspends
SendGet(i) ==
    /\ pc[i] = "sending"
    /\ requests' = [requests EXCEPT ![i] = @ + 1]
    /\ pc' = [pc EXCEPT ![i] = "awaiting"]
    /\ UNCHANGED <<tool, args, url, client, net, ret, data, outcome>>

\* the network delivers n (a response, an error or the timeout): the rest of
\* the try block and the except clause run, up to leaving the block
Receive(i, n) ==
    /\ pc[i] = "awaiting"
    /\ net' = [net EXCEPT ![i] = n]
    /\ LET r == MakeOpenmeteoRequest(n)
       IN  /\ ret' = StoreLocal(ret, i, r)
           /\ pc' = [pc EXCEPT ![i] = AfterAttempt(r, requests[i])]
    /\ UNCHANGED <<tool, args, url, client, requests, data, outcome>>

\* the client is closed, make_openmeteo_request hands over its result and
\* the tool runs to its end
Resume(i, t) ==
    /\ pc[i] = "exiting"
    /\ tool[i] = t
    /\ client' = [client EXCEPT ![i] = ClientAfterExit(ret[i])]
    /\ IF ret[i].kind = "raise"
       THEN /\ outcome' = [outcome EXCEPT ![i] = ret[i]]
            /\ data' = data
       ELSE /\ data' = StoreLocal(data, i, ret[i].v)
            /\ outcome' = [outcome EXCEPT ![i] =
                             IF t = "get_forecast"
                             THEN GetForecastBody(ret[i].v)
                             ELSE GetCurrentWeatherBody(ret[i].v)]
    /\ pc' = [pc EXCEPT ![i] = "done"]
    /\ UNCHANGED <<tool, args, url, requests, net, ret>>

ResumeForecast(i) == Resume(i, "get_forecast")

ResumeCurrentWeather(i) == Resume(i, "get_current_weather")

\* several invocations in flight, as the host runs them
Next ==
    \E i \in Invocations :
        \/ \E c \in Coordinates : CallForecast(i, c)
        \/ \E c \in Coordinates : CallCurrentWeather(i, c)
        \/ SendGet(i)
        \/ \E n \in FewAnswers : Receive(i, n)
        \/ ResumeForecast(i)
        \/ ResumeCurrentWeather(i)

Spec == Init /\ [][Next]_vars

\* one invocation, over every answer of the upstream
NextOne ==
    \/ \E c \in Coordinates : CallForecast(1, c)
    \/ \E c \in Coordinates : CallCurrentWeather(1, c)
    \/ SendGet(1)
    \/ \E n \in Answers : Receive(1, n)
    \/ ResumeForecast(1)
    \/ ResumeCurrentWeather(1)

SpecOne == Init /\ [][NextOne]_vars

(***************************************************************************)
(* The properties.                                                         *)
(***************************************************************************)
Done(i) == pc[i] = "done"

\* the position of the first occurrence of sep in s at or after p, 0 if none
FindFrom(s, sep, p) ==
    LET hits == {q \in p..(Len(s) - Len(sep) + 1) :
                    SubSeq(s, q, q + Len(sep) - 1) = sep}
    IN  IF hits = {} THEN 0
        ELSE CHOOSE q \in hits : \A h \in hits : q <= h

\* the pieces of s between the occurrences of sep
RECURSIVE SplitOn(_, _)
SplitOn(s, sep) ==
    LET p == FindFrom(s, sep, 1)
    IN  IF p = 0 THEN <<s>>
        ELSE <<SubSeq(s, 1, p - 1)>>
             \o SplitOn(SubSeq(s, p + Len(sep), Len(s)), sep)

StartsWith(s, prefix) ==
    Len(s) >= Len(prefix) /\ SubSeq(s, 1, Len(prefix)) = prefix

\* the values of the query parameter `name` of u, split at the commas
QueryList(u, name) ==
    LET query == SplitOn(u, "?")[2]
        params == SplitOn(query, "&")
        k == CHOOSE j \in 1..Len(params) : StartsWith(params[j], name \o "=")
    IN  SplitOn(SubSeq(params[k], Len(name) + 2, Len(params[k])), ",")

\* the member `key` of an object document
Field(doc, key) == LET j == CHOOSE j \in 1..Len(doc.o) : doc.o[j].k = key
                   IN  doc.o[j].v

HasField(doc, key) == doc.t = "obj" /\ \E j \in 1..Len(doc.o) : doc.o[j].k = key

DailyKeys == {"time", "temperature_2m_max", "temperature_2m_min",
              "precipitation_sum", "weathercode"}

\* a payload whose `daily` holds the five sequences, all of one length
FiveEqualSequences(doc) ==
    /\ HasField(doc, "daily")
    /\ \A key \in DailyKeys :
          /\ HasField(Field(doc, "daily"), key)
          /\ Field(Field(doc, "daily"), key).t = "arr"
          /\ Len(Field(Field(doc, "daily"), key).a)
               = Len(Field(Field(doc, "daily"), "time").a)

\* the fetch failed: an error, the timeout, an error status, a malformed body
FetchFailed(n) ==
    \/ n.kind = "error"
    \/ n.kind = "response" /\ n.status \in {404, 500}
    \/ n.kind = "response" /\ n.body \in MalformedBodies

\* the fetch succeeded: a 200 response whose body is a JSON text
FetchSucceeded(n) ==
    n.kind = "response" /\ n.status = 200 /\ n.body \notin MalformedBodies

Absent(i) == ret[i] = [kind |-> "return", v |-> [t |-> "null"]]

\* C1: when make_openmeteo_request yields None, get_forecast returns exactly
\* "Unable to fetch forecast data for this location." and get_current_weather
\* exactly "Unable to fetch current weather data for this location.", whatever
\* the coordinates.
C1_AbsenceGivesFallback ==
    \A i \in Invocations :
        Done(i) /\ Absent(i) =>
            /\ tool[i] = "get_forecast" =>
                 outcome[i] = [kind |-> "return",
                               text |-> "Unable to fetch forecast data for this location."]
            /\ tool[i] = "get_current_weather" =>
                 outcome[i] = [kind |-> "return",
                               text |-> "Unable to fetch current weather data for this location."]

C1_Witness ==
    \E i \in Invocations :
        /\ Done(i) /\ Absent(i) /\ tool[i] = "get_forecast"
        /\ net[i] = NetError("ReadTimeout")
        /\ args[i] = <<-3390, 15120>>

\* C2: on every failure of the upstream call (connection error, timeout, HTTP
\* error status, malformed body) make_openmeteo_request returns None and
\* raises nothing; an HTTP 500 and a connection failure give the same result.
C2_FailuresGiveAbsence ==
    \A i \in Invocations :
        pc[i] \in {"exiting", "done"} /\ FetchFailed(net[i]) =>
            /\ ret[i].kind = "return"
            /\ ret[i].v = [t |-> "null"]

C2_Witness ==
    \E i \in Invocations :
        /\ pc[i] = "exiting"
        /\ net[i].kind = "response" /\ net[i].body \in MalformedBodies

\* C3: no tool invocation ends by raising, whatever was fetched: every
\* finished invocation has returned a text.
C3_NothingRaised ==
    \A i \in Invocations : Done(i) => outcome[i].kind = "return"

\* C4: for a fetched payload whose `daily` holds five equal-length sequences,
\* the forecast is len(daily.time) blocks in index order joined by "\n---\n",
\* block i being the lines Date, Max Temperature, Min Temperature,
\* Precipitation and Weather Code with the values at index i.
C4_ForecastBlocks ==
    \A i \in Invocations :
        Done(i) /\ tool[i] = "get_forecast" /\ FiveEqualSequences(data[i]) =>
            LET daily == Field(data[i], "daily")
                n == Len(Field(daily, "time").a)
                At(key, k) == PyStr(Field(daily, key).a[k])
                blocks == SplitOn(outcome[i].text, "\n---\n")
            IN  /\ outcome[i].kind = "return"
                /\ n = 0 => outcome[i].text = ""
                /\ n > 0 =>
                     /\ Len(blocks) = n
                     /\ \A k \in 1..n :
                          SplitOn(blocks[k], "\n") =
                            << "",
                               "Date: " \o At("time", k),
                               "Max Temperature: " \o At("temperature_2m_max", k) \o "°C",
                               "Min Temperature: " \o At("temperature_2m_min", k) \o "°C",
                               "Precipitation: " \o At("precipitation_sum", k) \o " mm",
                               "Weather Code: " \o At("weathercode", k),
                               "" >>

C4_Witness ==
    \E i \in Invocations :
        /\ Done(i) /\ tool[i] = "get_forecast" /\ FiveEqualSequences(data[i])
        /\ Len(Field(Field(data[i], "daily"), "time").a) = MaxDays
        /\ outcome[i].kind = "return"

\* the text parses back to the whole payload
RoundTrips(i) ==
    /\ outcome[i].kind = "return"
    /\ JsonLoads(outcome[i].text).ok
    /\ JsonLoads(outcome[i].text).v = JsonLoads(net[i].body).v

\* C5 as stated: whenever the fetch succeeds, get_current_weather returns the
\* serialization of the whole payload, which parses back to the payload.
C5_Original ==
    \A i \in Invocations :
        Done(i) /\ tool[i] = "get_current_weather" /\ FetchSucceeded(net[i])
            => RoundTrips(i)

\* C5, amended: whenever the fetch succeeds with a non-empty (truthy) payload,
\* get_current_weather returns the serialization of the whole payload, which
\* parses back to the payload.
C5_RoundTrip ==
    \A i \in Invocations :
        /\ Done(i) /\ tool[i] = "get_current_weather" /\ FetchSucceeded(net[i])
        /\ PyTruthy(JsonLoads(net[i].body).v)
        => RoundTrips(i)

C5_Witness ==
    \E i \in Invocations :
        /\ Done(i) /\ tool[i] = "get_current_weather"
        /\ net[i] = Response(200, UpstreamBody(CurrentDoc))
        /\ RoundTrips(i)
        /\ JsonLoads(outcome[i].text).v # Field(CurrentDoc, "current")

\* C6: an invocation sends exactly one GET: never a second one, and a
\* finished invocation has sent one, also after a failed attempt.
C6_SingleAttempt ==
    \A i \in Invocations :
        /\ requests[i] <= 1
        /\ pc[i] \in {"awaiting", "exiting", "done"} => requests[i] = 1

C6_Witness ==
    \E i \in Invocations :
        Done(i) /\ FetchFailed(net[i]) /\ requests[i] = 1

\* C7: the client a call of make_openmeteo_request opened is closed once the
\* call has returned, on every exit path; no finished invocation holds an
\* open client.
C7_ClientReleased ==
    \A i \in Invocations :
        /\ Done(i) => client[i] = "closed"
        /\ pc[i] = "idle" => client[i] = "none"
        /\ pc[i] \in {"sending", "awaiting", "exiting"} => client[i] = "open"

C7_Witness ==
    \E i \in Invocations :
        Done(i) /\ net[i] = NetError("ReadTimeout") /\ client[i] = "closed"

\* what invocation i ends with when it runs alone on its own arguments and
\* its own answer from the network
Alone(i) ==
    LET r == MakeOpenmeteoRequest(net[i])
    IN  IF r.kind = "raise" THEN r
        ELSE IF tool[i] = "get_forecast" THEN GetForecastBody(r.v)
        ELSE GetCurrentWeatherBody(r.v)

UrlOf(i) ==
    IF tool[i] = "get_forecast" THEN ForecastUrl(args[i][1], args[i][2])
    ELSE CurrentWeatherUrl(args[i][1], args[i][2])

\* C8: under every interleaving of the invocations in flight, each one ends
\* with what it would end with alone: its URL comes from its own arguments
\* and its result from its own fetch.
C8_Isolation ==
    \A i \in Invocations :
        /\ pc[i] # "idle" => url[i] = UrlOf(i)
        /\ Done(i) => outcome[i] = Alone(i)

C8_Witness ==
    \E i, j \in Invocations :
        /\ i # j
        /\ Done(i) /\ pc[j] = "exiting"
        /\ net[i] # net[j] /\ tool[i] # tool[j] /\ args[i] # args[j]

CurrentVariables ==
    << "temperature_2m", "is_day", "showers", "cloud_cover", "wind_speed_10m",
       "wind_direction_10m", "pressure_msl", "snowfall", "precipitation",
       "relative_humidity_2m", "apparent_temperature", "rain", "weather_code",
       "surface_pressure", "wind_gusts_10m" >>

\* C9 as stated: the `current` parameter of the URL of get_current_weather
\* lists fourteen variables.
C9_Original ==
    \A i \in Invocations :
        pc[i] # "idle" /\ tool[i] = "get_current_weather" =>
            Len(QueryList(url[i], "current")) = 14

\* C9, amended: the `current` parameter of the URL of get_current_weather
\* lists fifteen variables, the same list for every latitude and longitude.
C9_FifteenVariables ==
    \A i \in Invocations :
        pc[i] # "idle" /\ tool[i] = "get_current_weather" =>
            /\ Len(QueryList(url[i], "current")) = 15
            /\ QueryList(url[i], "current") = CurrentVariables

C9_Witness ==
    \E i \in Invocations :
        /\ pc[i] = "sending" /\ tool[i] = "get_current_weather"
        /\ args[i] = <<5252, 1341>>
        /\ QueryList(url[i], "latitude") = <<"52.52">>

\* a 200 response whose body is an empty (falsy) JSON document
EmptyPayload(n) ==
    n.kind = "response" /\ n.status = 200
    /\ n.body \in {"{}", "[]", "0", "\"\"", "false", "null"}

\* C10: a fetch that succeeds with an empty (falsy) JSON document ends as a
\* failed fetch does: each tool returns its "Unable to fetch ..." string.
C10_EmptyPayloadIsFallback ==
    \A i \in Invocations :
        Done(i) /\ EmptyPayload(net[i]) =>
            outcome[i] =
                [kind |-> "return",
                 text |-> IF tool[i] = "get_forecast"
                          THEN "Unable to fetch forecast data for this location."
                          ELSE "Unable to fetch current weather data for this location."]

C10_Witness ==
    \E i \in Invocations :
        /\ Done(i) /\ net[i] = Response(200, "{}")
        /\ tool[i] = "get_current_weather"
        /\ data[i] = [t |-> "obj", o |-> <<>>]
====
